---------------------------- MODULE Spec2Model ----------------------------
(***************************************************************************)
(* A model of calculate_carbon_footprint (src/main.py).                    *)
(*                                                                         *)
(* Numbers.  The code computes in binary floating point and rounds the     *)
(* five returned fields to 2 decimals.  The model computes with exact      *)
(* non-negative rationals <<n, d>> in lowest terms and rounds the exact    *)
(* value to an integer number of hundredths, so returned fields are        *)
(* integers counting hundredths of a metric ton.  Where the exact value    *)
(* lies halfway between two hundredths, the float the code holds lies a    *)
(* hair to one side or the other and round() follows it: half_up[c] is     *)
(* the set of returned fields of call c whose halfway value goes up.  It   *)
(* is fixed per call, any value is allowed, and two calls that read the    *)
(* same input values for a field (and so compute the same float) agree.    *)
(*                                                                         *)
(* Calls.  Each call of the function is a process that walks through the   *)
(* function body: Build (lines 119-161), Scale (163-166), Lookup           *)
(* (168-169) and Finish (171-302).  The steps of different calls           *)
(* interleave freely.                                                      *)
(***************************************************************************)
EXTENDS Integers, Sequences, FiniteSets, TLC

\* ------------------------------------------------------------------------
\* Bounds of the model
\* ------------------------------------------------------------------------
NumCalls == 2

MaxHours == 3

MaxFlights == 1

MaxTherms == 1

MaxMeals == 3

MaxItems == 2

MaxResidents == 2

Calls == 1..NumCalls

\* ------------------------------------------------------------------------
\* Exact rational arithmetic standing for the code's float arithmetic
\* ------------------------------------------------------------------------
RECURSIVE GCD(_, _)
GCD(a, b) == IF b = 0 THEN a ELSE GCD(b, a % b)

Q(n, d) == LET g == GCD(n, d) IN <<n \div g, d \div g>>

QInt(n) == <<n, 1>>

QMul(a, b) ==
    LET g1 == GCD(a[1], b[2])
        g2 == GCD(b[1], a[2])
    IN  <<(a[1] \div g1) * (b[1] \div g2), (a[2] \div g2) * (b[2] \div g1)>>

QDiv(a, b) == QMul(a, <<b[2], b[1]>>)

QAdd(a, b) ==
    LET g == GCD(a[2], b[2])
    IN  Q(a[1] * (b[2] \div g) + b[1] * (a[2] \div g), (a[2] \div g) * b[2])

\* a - b, for a >= b
QSub(a, b) ==
    LET g == GCD(a[2], b[2])
    IN  Q(a[1] * (b[2] \div g) - b[1] * (a[2] \div g), (a[2] \div g) * b[2])

QLe(a, b) == a[1] * b[2] <= b[1] * a[2]

QMin(a, b) == IF QLe(a, b) THEN a ELSE b

\* x lies exactly halfway between two hundredths
IsTie(x) == 2 * (((x[1] % x[2]) * 100) % x[2]) = x[2]

\* round(x, 2): the nearest number of hundredths; a halfway value goes up
\* when `up`, down otherwise
Round2(x, up) ==
    LET whole == x[1] \div x[2]
        rem   == x[1] % x[2]
        h     == (rem * 100) \div x[2]
        r     == (rem * 100) % x[2]
        low   == whole * 100 + h
    IN  IF 2 * r > x[2] THEN low + 1
        ELSE IF 2 * r < x[2] THEN low
        ELSE IF up THEN low + 1 ELSE low

\* dict.get(key, default)
Get(dict, key, default) == IF key \in DOMAIN dict THEN dict[key] ELSE default

\* ------------------------------------------------------------------------
\* Enumerations (lines 14-68)
\* ------------------------------------------------------------------------
VehicleType == {"car", "suv", "motorcycle", "none"}

FuelType == {"gasoline", "diesel", "electric", "hybrid", "none"}

DwellingType == {"apartment", "townhouse", "house"}

HeatingSource == {"natural_gas", "electricity", "oil", "propane"}

DietType == {"meat_heavy", "average", "pescatarian", "vegetarian", "vegan"}

UsageLevel == {"high", "medium", "low", "none"}

WaterUsageLevel == {"high", "medium", "low"}

IncomeLevel == {"low", "medium", "high"}

Location == {"US", "EU", "CA", "CN", "IN", "AU", "other"}

\* ------------------------------------------------------------------------
\* Lookup tables of calculate_carbon_footprint
\* ------------------------------------------------------------------------
vehicle_emission_factors ==
    [v \in {"car", "suv", "motorcycle"} |->
        CASE v = "car" ->
                [f \in {"gasoline", "diesel", "hybrid", "electric"} |->
                    CASE f = "gasoline" -> Q(33, 100)
                      [] f = "diesel"   -> Q(31, 100)
                      [] f = "hybrid"   -> Q(19, 100)
                      [] f = "electric" -> Q(10, 100)]
          [] v = "suv" ->
                [f \in {"gasoline", "diesel", "hybrid", "electric"} |->
                    CASE f = "gasoline" -> Q(44, 100)
                      [] f = "diesel"   -> Q(42, 100)
                      [] f = "hybrid"   -> Q(29, 100)
                      [] f = "electric" -> Q(12, 100)]
          [] v = "motorcycle" ->
                [f \in {"gasoline", "diesel", "hybrid", "electric"} |->
                    CASE f = "gasoline" -> Q(18, 100)
                      [] f = "diesel"   -> Q(0, 100)
                      [] f = "hybrid"   -> Q(0, 100)
                      [] f = "electric" -> Q(5, 100)]]

electricity_factors ==
    [l \in {"US", "EU", "CA", "CN", "IN", "AU"} |->
        CASE l = "US" -> Q(10, 10)
          [] l = "EU" -> Q(7, 10)
          [] l = "CA" -> Q(5, 10)
          [] l = "CN" -> Q(15, 10)
          [] l = "IN" -> Q(14, 10)
          [] l = "AU" -> Q(12, 10)]

flight_emission_factors ==
    [k \in {"short", "medium", "long"} |->
        CASE k = "short"  -> Q(15, 100)
          [] k = "medium" -> Q(4, 10)
          [] k = "long"   -> Q(15, 10)]

electricity_emission_factors ==
    [l \in {"US", "EU", "CA", "CN", "IN", "AU"} |->
        CASE l = "US" -> Q(40, 100000)
          [] l = "EU" -> Q(30, 100000)
          [] l = "CA" -> Q(15, 100000)
          [] l = "CN" -> Q(70, 100000)
          [] l = "IN" -> Q(80, 100000)
          [] l = "AU" -> Q(70, 100000)]

dwelling_factors ==
    [d \in DwellingType |->
        CASE d = "apartment" -> Q(8, 10)
          [] d = "townhouse" -> Q(10, 10)
          [] d = "house"     -> Q(12, 10)]

diet_emission_factors ==
    [d \in DietType |->
        CASE d = "meat_heavy"  -> Q(25, 10)
          [] d = "average"     -> Q(19, 10)
          [] d = "pescatarian" -> Q(17, 10)
          [] d = "vegetarian"  -> Q(14, 10)
          [] d = "vegan"       -> Q(11, 10)]

plastic_factors ==
    [u \in UsageLevel |->
        CASE u = "high"   -> Q(20, 100)
          [] u = "medium" -> Q(15, 100)
          [] u = "low"    -> Q(10, 100)
          [] u = "none"   -> Q(5, 100)]

water_factors ==
    [w \in WaterUsageLevel |->
        CASE w = "high"   -> Q(3, 10)
          [] w = "medium" -> Q(2, 10)
          [] w = "low"    -> Q(1, 10)]

income_factors ==
    [i \in IncomeLevel |->
        CASE i = "low"    -> Q(7, 10)
          [] i = "medium" -> Q(10, 10)
          [] i = "high"   -> Q(15, 10)]


\* ------------------------------------------------------------------------
\* The formulas of calculate_carbon_footprint, on an input record `in`
\* ------------------------------------------------------------------------
\* a plausible slip: the mileage is scaled by the fuel efficiency
annual_miles_by_mpg(in) ==
    QMul(QMul(QInt(in.miles_driven_weekly), QInt(52)), Q(30, in.fuel_efficiency_mpg))

annual_miles(in) == QMul(QInt(in.miles_driven_weekly), QInt(52))

\* a plausible slip: the region is ignored
location_factor_ignored(in) == QInt(1)

location_factor(in) == Get(electricity_factors, in.location, QInt(1))

\* line 166: table[vehicle_type][ELECTRIC] *= location_factor; indexing the
\* table with a vehicle it does not hold raises KeyError
ScaleRaises(table, in) ==
    /\ in.vehicle_fuel_type = "electric"
    /\ in.vehicle_type \notin DOMAIN table

ScaledTable(table, in) ==
    IF in.vehicle_fuel_type = "electric"
    THEN [table EXCEPT ![in.vehicle_type]["electric"] = QMul(@, location_factor(in))]
    ELSE table

\* a plausible slip: a missing combination counts as 0
emission_factor_no_default(table, in) ==
    LET EmptyDict == [k \in {} |-> QInt(0)]
    IN  Get(Get(table, in.vehicle_type, EmptyDict), in.vehicle_fuel_type, QInt(0))

emission_factor(table, in) ==
    LET EmptyDict == [k \in {} |-> QInt(0)]
    IN  Get(Get(table, in.vehicle_type, EmptyDict), in.vehicle_fuel_type, Q(33, 100))

\* the driving term added to transport_emissions at line 169
driving_emissions(table, in) ==
    QDiv(QMul(annual_miles(in), emission_factor(table, in)), QInt(1000))

public_transit_emissions(in) ==
    LET public_transit_annual_hours == QMul(QInt(in.public_transit_hours_weekly), QInt(52))
        public_transit_emissions_factor == Q(5, 100)
    IN  QMul(QDiv(public_transit_annual_hours, QInt(100)), public_transit_emissions_factor)

flight_emissions(in) ==
    QAdd(QAdd(QMul(QInt(in.flights_short_haul), flight_emission_factors["short"]),
              QMul(QInt(in.flights_medium_haul), flight_emission_factors["medium"])),
         QMul(QInt(in.flights_long_haul), flight_emission_factors["long"]))

\* line 190: 1 / num_residents raises ZeroDivisionError for 0 residents
ResidentRaises(in) == in.num_residents = 0

resident_factor(in) == QDiv(QInt(1), QInt(in.num_residents))

electricity_emission_factor(in) ==
    Get(electricity_emission_factors, in.location, Q(40, 100000))

\* a plausible slip: the percentage is divided by 200
renewable_adjustment_halved(in) ==
    QSub(QInt(1), QDiv(QInt(in.renewable_energy_percentage), QInt(200)))

renewable_adjustment(in) ==
    QSub(QInt(1), QDiv(QInt(in.renewable_energy_percentage), QInt(100)))

electricity_emissions(in) ==
    LET electricity_annual_kwh == QMul(QInt(in.electricity_kwh_monthly), QInt(12))
    IN  QMul(QMul(electricity_annual_kwh, electricity_emission_factor(in)),
             renewable_adjustment(in))

natural_gas_emissions(in) ==
    LET natural_gas_annual_therms == QMul(QInt(in.natural_gas_therms_monthly), QInt(12))
        natural_gas_emission_factor == Q(53, 10000)
    IN  QMul(natural_gas_annual_therms, natural_gas_emission_factor)

fuel_oil_emissions(in) ==
    LET fuel_oil_annual_gallons == QMul(QInt(in.fuel_oil_gallons_monthly), QInt(12))
        fuel_oil_emission_factor == Q(1, 100)
    IN  QMul(fuel_oil_annual_gallons, fuel_oil_emission_factor)

home_size_factor(in) == QMin(QDiv(QInt(in.home_size_sqft), QInt(1500)), QInt(2))

dwelling_factor(in) == Get(dwelling_factors, in.dwelling_type, QInt(1))

home_emissions(in) ==
    QMul(QMul(QMul(QAdd(QAdd(electricity_emissions(in), natural_gas_emissions(in)),
                        fuel_oil_emissions(in)),
                   resident_factor(in)),
              home_size_factor(in)),
         dwelling_factor(in))

base_food_emissions(in) == Get(diet_emission_factors, in.diet_type, Q(19, 10))

\* a plausible slip: local food raises the footprint
local_food_surcharge(in) ==
    QAdd(QInt(1), QMul(QDiv(QInt(in.local_food_percentage), QInt(100)), Q(2, 10)))

local_food_adjustment(in) ==
    QSub(QInt(1), QMul(QDiv(QInt(in.local_food_percentage), QInt(100)), Q(2, 10)))

food_waste_adjustment(in) ==
    QAdd(QInt(1), QMul(QDiv(QInt(in.food_waste_percentage), QInt(100)), Q(3, 10)))

restaurant_factor(in) ==
    QAdd(QInt(1), QMul(QDiv(QInt(in.meals_eaten_out_weekly), QInt(21)), Q(2, 10)))

food_emissions(in) ==
    QMul(QMul(QMul(base_food_emissions(in), local_food_adjustment(in)),
              food_waste_adjustment(in)),
         restaurant_factor(in))

clothing_emissions(in) == QMul(QInt(in.new_clothes_items_yearly), Q(1, 100))

electronics_emissions(in) == QMul(QInt(in.new_electronics_items_yearly), Q(8, 100))

\* a plausible slip: recycling saves up to 10%
recycling_factor_tenth(in) ==
    QSub(QInt(1), QMul(QDiv(QInt(in.recycling_rate), QInt(100)), Q(10, 100)))

recycling_factor(in) ==
    QSub(QInt(1), QMul(QDiv(QInt(in.recycling_rate), QInt(100)), Q(15, 100)))

plastic_emissions(in) == Get(plastic_factors, in.single_use_plastic_level, Q(15, 100))

water_emissions(in) == Get(water_factors, in.water_consumption_level, Q(2, 10))

income_factor(in) == Get(income_factors, in.income_level, QInt(1))

consumer_emissions(in) ==
    QMul(QMul(QAdd(QAdd(QAdd(clothing_emissions(in), electronics_emissions(in)),
                        plastic_emissions(in)),
                   water_emissions(in)),
              recycling_factor(in)),
         income_factor(in))

\* a plausible slip: the consumer subtotal is left out of the total
total_without_consumer(transport, home, food, consumer) ==
    QAdd(QAdd(transport, home), food)

total_emissions(transport, home, food, consumer) ==
    QAdd(QAdd(QAdd(transport, home), food), consumer)

Fields == {"transport", "home", "food", "consumer", "total"}

\* the exact (unrounded) values behind the five returned fields
Unrounded(transport, in) ==
    LET home     == home_emissions(in)
        food     == food_emissions(in)
        consumer == consumer_emissions(in)
    IN  [transport |-> transport,
         home      |-> home,
         food      |-> food,
         consumer  |-> consumer,
         total     |-> total_emissions(transport, home, food, consumer)]

\* lines 296-302: the result record, its five fields rounded independently
CarbonFootprintResult(transport, in, ups) ==
    LET x == Unrounded(transport, in)
    IN  [kind                   |-> "result",
         total_carbon_footprint |-> Round2(x.total, "total" \in ups),
         transport_emissions    |-> Round2(x.transport, "transport" \in ups),
         home_emissions         |-> Round2(x.home, "home" \in ups),
         food_emissions         |-> Round2(x.food, "food" \in ups),
         consumer_emissions     |-> Round2(x.consumer, "consumer" \in ups)]

Raised(exception) == [kind |-> exception]

NoResult == [kind |-> "pending"]

\* ------------------------------------------------------------------------
\* State
\* ------------------------------------------------------------------------
VARIABLES
    input,      \* input[c]: the input_data record of call c
    half_up,    \* half_up[c]: the fields of call c whose halfway value rounds up
    pc,         \* pc[c]: where call c stands in the function body
    tables,     \* tables[t]: a vehicle_emission_factors dict object
    transport,  \* transport[c]: call c's local transport_emissions
    result      \* result[c]: what call c returned or raised

vars == <<input, half_up, pc, tables, transport, result>>

\* a plausible slip: the table is one module-level dict shared by all calls
SharedTable(c) == 1

\* The dict literal of line 132 is evaluated inside the function body, so the
\* name vehicle_emission_factors of call c is bound to call c's own object.
TableOf(c) == c

Unbuilt == [v \in {} |-> [f \in {} |-> QInt(0)]]

\* lines 119-161
Build(c) ==
    /\ pc[c] = "start"
    /\ transport' = [transport EXCEPT ![c] = QInt(0)]
    /\ IF input[c].vehicle_type # "none"
       THEN /\ tables' = [tables EXCEPT ![TableOf(c)] = vehicle_emission_factors]
            /\ pc' = [pc EXCEPT ![c] = "scale"]
       ELSE /\ tables' = tables
            /\ pc' = [pc EXCEPT ![c] = "rest"]
    /\ UNCHANGED <<input, half_up, result>>

\* lines 163-166
Scale(c) ==
    /\ pc[c] = "scale"
    /\ IF ScaleRaises(tables[TableOf(c)], input[c])
       THEN /\ result' = [result EXCEPT ![c] = Raised("KeyError")]
            /\ pc' = [pc EXCEPT ![c] = "done"]
            /\ tables' = tables
       ELSE /\ tables' = [tables EXCEPT ![TableOf(c)] = ScaledTable(@, input[c])]
            /\ pc' = [pc EXCEPT ![c] = "lookup"]
            /\ result' = result
    /\ UNCHANGED <<input, half_up, transport>>

\* lines 168-169
Lookup(c) ==
    /\ pc[c] = "lookup"
    /\ transport' = [transport EXCEPT ![c] =
                        QAdd(@, driving_emissions(tables[TableOf(c)], input[c]))]
    /\ pc' = [pc EXCEPT ![c] = "rest"]
    /\ UNCHANGED <<input, half_up, tables, result>>

\* lines 171-302
Finish(c) ==
    /\ pc[c] = "rest"
    /\ LET t == QAdd(QAdd(transport[c], public_transit_emissions(input[c])),
                     flight_emissions(input[c]))
       IN  /\ transport' = [transport EXCEPT ![c] = t]
           /\ result' = [result EXCEPT ![c] =
                            IF ResidentRaises(input[c])
                            THEN Raised("ZeroDivisionError")
                            ELSE CarbonFootprintResult(t, input[c], half_up[c])]
    /\ pc' = [pc EXCEPT ![c] = "done"]
    /\ UNCHANGED <<input, half_up, tables>>

Next == \E c \in Calls : Build(c) \/ Scale(c) \/ Lookup(c) \/ Finish(c)

\* ------------------------------------------------------------------------
\* One call run alone, from entry to return
\* ------------------------------------------------------------------------
transport_emissions(in) ==
    LET drive == IF in.vehicle_type # "none"
                 THEN driving_emissions(ScaledTable(vehicle_emission_factors, in), in)
                 ELSE QInt(0)
    IN  QAdd(QAdd(drive, public_transit_emissions(in)), flight_emissions(in))

Raises(in) ==
    \/ in.vehicle_type # "none" /\ ScaleRaises(vehicle_emission_factors, in)
    \/ ResidentRaises(in)

calculate_carbon_footprint(in, ups) ==
    IF in.vehicle_type # "none" /\ ScaleRaises(vehicle_emission_factors, in)
    THEN Raised("KeyError")
    ELSE IF ResidentRaises(in) THEN Raised("ZeroDivisionError")
    ELSE CarbonFootprintResult(transport_emissions(in), in, ups)

\* ------------------------------------------------------------------------
\* Halfway values
\* ------------------------------------------------------------------------
\* FloatKey(k, in) names the float computation behind returned field k: two
\* inputs with the same key make the code execute the same float operations
\* on the same operands for k, so round() goes the same way for both.  A
\* subtotal is computed from the attributes of input_data the code reads for
\* it; a driving term or home subtotal whose exact value is 0 is the float
\* 0.0 whatever it was computed from (a factor of it is the float 0.0), and
\* adding it changes nothing.
FloatKey(k, in) ==
    LET drive == IF in.vehicle_type = "none" THEN QInt(0)
                 ELSE driving_emissions(ScaledTable(vehicle_emission_factors, in), in)
        t == <<IF drive[1] = 0 THEN <<"", "", 0, "">>
               ELSE <<in.vehicle_type, in.vehicle_fuel_type, in.miles_driven_weekly,
                      in.location>>,
               in.public_transit_hours_weekly, in.flights_short_haul,
               in.flights_medium_haul, in.flights_long_haul>>
        h == IF home_emissions(in)[1] = 0 THEN <<0, 0, "", 0, 0, 0, 0, "">>
             ELSE <<in.num_residents, in.electricity_kwh_monthly, in.location,
                    in.renewable_energy_percentage, in.natural_gas_therms_monthly,
                    in.fuel_oil_gallons_monthly, in.home_size_sqft, in.dwelling_type>>
        f == <<in.diet_type, in.local_food_percentage, in.food_waste_percentage,
               in.meals_eaten_out_weekly>>
        c == <<in.new_clothes_items_yearly, in.new_electronics_items_yearly,
               in.recycling_rate, in.single_use_plastic_level,
               in.water_consumption_level, in.income_level>>
    IN  IF Raises(in) THEN <<>>
        ELSE CASE k = "transport" -> <<t>>
               [] k = "home"      -> <<h>>
               [] k = "food"      -> <<f>>
               [] k = "consumer"  -> <<c>>
               [] k = "total"     -> <<t, h, f, c>>

\* the returned fields of `in` whose exact value is halfway
TieFields(in) ==
    IF Raises(in) THEN {}
    ELSE LET x == Unrounded(transport_emissions(in), in)
         IN  {k \in Fields : IsTie(x[k])}

\* the values half_up may take for the inputs `ins` of the calls
HalfUps(ins) ==
    LET ties == [c \in Calls |-> TieFields(ins[c])]
        any  == UNION {ties[c] : c \in Calls}
        same == [k \in any |->
                    {p \in Calls \X Calls :
                        FloatKey(k, ins[p[1]]) = FloatKey(k, ins[p[2]])}]
    IN  {u \in [Calls -> SUBSET any] :
            /\ \A c \in Calls : u[c] \subseteq ties[c]
            /\ \A k \in any : \A p \in same[k] : k \in u[p[1]] <=> k \in u[p[2]]}

\* ------------------------------------------------------------------------
\* Inputs
\* ------------------------------------------------------------------------
BaseInput ==
    [vehicle_type                |-> "car",
     vehicle_fuel_type           |-> "gasoline",
     miles_driven_weekly         |-> 100,
     fuel_efficiency_mpg         |-> 30,
     public_transit_hours_weekly |-> 0,
     flights_short_haul          |-> 0,
     flights_medium_haul         |-> 0,
     flights_long_haul           |-> 0,
     home_size_sqft              |-> 1500,
     dwelling_type               |-> "townhouse",
     num_residents               |-> 1,
     heating_source              |-> "natural_gas",
     electricity_kwh_monthly     |-> 0,
     natural_gas_therms_monthly  |-> 0,
     fuel_oil_gallons_monthly    |-> 0,
     renewable_energy_percentage |-> 0,
     diet_type                   |-> "average",
     local_food_percentage       |-> 0,
     food_waste_percentage       |-> 0,
     meals_eaten_out_weekly      |-> 0,
     new_clothes_items_yearly    |-> 0,
     new_electronics_items_yearly |-> 0,
     recycling_rate              |-> 0,
     single_use_plastic_level    |-> "medium",
     water_consumption_level     |-> "medium",
     location                    |-> "US",
     income_level                |-> "medium"]

\* the calls stand at the entry of the function, with inputs drawn from `S`
InitFrom(S) ==
    /\ \E ins \in S : \E ups \in HalfUps(ins) : input = ins /\ half_up = ups
    /\ pc = [c \in Calls |-> "start"]
    /\ tables = [c \in Calls |-> Unbuilt]
    /\ transport = [c \in Calls |-> QInt(0)]
    /\ result = [c \in Calls |-> NoResult]

\* ------------------------------------------------------------------------
\* Concurrent calls
\* ------------------------------------------------------------------------
ConcurrentInputs ==
    {[BaseInput EXCEPT !.vehicle_type = v, !.vehicle_fuel_type = f, !.location = l,
                       !.miles_driven_weekly = m] :
        v \in {"motorcycle", "none"}, f \in {"gasoline", "electric"},
        l \in {"CA", "CN"}, m \in {250}}

Init == InitFrom([Calls -> ConcurrentInputs])

Spec == Init /\ [][Next]_vars

\* C2: every call returns what the same call returns when it runs alone on
\* the same input, however the steps of the calls interleave; so the region
\* scaling of one call never reaches another call, and two calls with the
\* same input return the same result.
CallsIsolated ==
    \A c \in Calls :
        pc[c] = "done" => result[c] = calculate_carbon_footprint(input[c], half_up[c])

\* a call has returned while another electric-vehicle call on the same
\* vehicle in another region stands between its scaling and its lookup, the
\* two tables holding two different scaled entries
WitnessIsolated ==
    \E c, d \in Calls :
        /\ c # d
        /\ pc[c] = "done" /\ result[c].kind = "result"
        /\ pc[d] = "lookup"
        /\ input[c].vehicle_fuel_type = "electric"
        /\ input[d].vehicle_fuel_type = "electric"
        /\ input[c].vehicle_type = input[d].vehicle_type
        /\ input[c].location # input[d].location
        /\ tables[TableOf(c)][input[c].vehicle_type]["electric"]
              # tables[TableOf(d)][input[d].vehicle_type]["electric"]

\* ------------------------------------------------------------------------
\* Input sets of the other specifications: call 1 gets an input x of the
\* set, the other calls get BaseInput or a variant of x
\* ------------------------------------------------------------------------
Single(D) == {[c \in Calls |-> IF c = 1 THEN x ELSE BaseInput] : x \in D}

Abs(n) == IF n < 0 THEN -n ELSE n

Done(c) == pc[c] = "done"

\* ------------------------------------------------------------------------
\* Driving (C9)
\* ------------------------------------------------------------------------
DrivingInputs ==
    {[BaseInput EXCEPT !.vehicle_type = v, !.vehicle_fuel_type = f, !.location = l,
                       !.miles_driven_weekly = m] :
        v \in VehicleType, f \in FuelType, l \in Location, m \in {0, 100, 250}}

InitDriving == InitFrom(Single(DrivingInputs))

SpecDriving == InitDriving /\ [][Next]_vars

\* the factor table as the claim states it, in thousandths of a kg per mile
ClaimedFactor(v, f, l) ==
    LET base == CASE v = "car" /\ f = "gasoline" -> 330
                  [] v = "car" /\ f = "diesel" -> 310
                  [] v = "car" /\ f = "hybrid" -> 190
                  [] v = "car" /\ f = "electric" -> 100
                  [] v = "suv" /\ f = "gasoline" -> 440
                  [] v = "suv" /\ f = "diesel" -> 420
                  [] v = "suv" /\ f = "hybrid" -> 290
                  [] v = "suv" /\ f = "electric" -> 120
                  [] v = "motorcycle" /\ f = "gasoline" -> 180
                  [] v = "motorcycle" /\ f = "diesel" -> 0
                  [] v = "motorcycle" /\ f = "hybrid" -> 0
                  [] v = "motorcycle" /\ f = "electric" -> 50
                  [] OTHER -> 330
        grid == CASE l = "US" -> 10 [] l = "EU" -> 7 [] l = "CA" -> 5
                  [] l = "CN" -> 15 [] l = "IN" -> 14 [] l = "AU" -> 12
                  [] OTHER -> 10
    IN  IF f = "electric" THEN (base * grid) \div 10 ELSE base

\* C9: when a call has passed the vehicle block, its transport_emissions is 0
\* for vehicle none and weekly_miles * 52 * factor / 1000 otherwise, the
\* factor being the table entry (times the grid multiplier for electric
\* only) and 0.33 for a combination the table lacks; car, gasoline, 100
\* miles, US gives 1.716.
DrivingContribution ==
    \A c \in Calls :
        pc[c] = "rest" =>
            LET in == input[c]
            IN  /\ in.vehicle_type = "none" => transport[c] = QInt(0)
                /\ in.vehicle_type # "none" =>
                      transport[c] =
                          Q(in.miles_driven_weekly * 52
                              * ClaimedFactor(in.vehicle_type, in.vehicle_fuel_type,
                                              in.location),
                            1000000)
                /\ (/\ in.vehicle_type = "car" /\ in.vehicle_fuel_type = "gasoline"
                    /\ in.miles_driven_weekly = 100 /\ in.location = "US")
                      => transport[c] = Q(1716, 1000)

\* a real vehicle with fuel none has passed the lookup and got the 0.33 default
WitnessDriving ==
    \E c \in Calls :
        /\ pc[c] = "rest"
        /\ input[c].vehicle_type = "suv" /\ input[c].vehicle_fuel_type = "none"
        /\ input[c].miles_driven_weekly = 100
        /\ transport[c] = Q(1716, 1000)

\* ------------------------------------------------------------------------
\* Electric vehicles in CN and CA (C5)
\* ------------------------------------------------------------------------
InRegion(x, l) == [x EXCEPT !.location = l]

InCA(x) == InRegion(x, "CA")

ElectricInputs ==
    {[BaseInput EXCEPT !.vehicle_type = v, !.vehicle_fuel_type = "electric",
                       !.location = "CN", !.miles_driven_weekly = m,
                       !.public_transit_hours_weekly = h,
                       !.flights_short_haul = fs, !.flights_long_haul = fl] :
        v \in {"car", "suv", "motorcycle"}, m \in {0, 1, 4, 100},
        h \in 0..MaxHours, fs \in 0..MaxFlights, fl \in 0..MaxFlights}

InitElectric == 
    InitFrom({[c \in Calls |-> IF c = 1 THEN x ELSE InCA(x)] : x \in ElectricInputs})

SpecElectric == InitElectric /\ [][Next]_vars

\* calls c and d returned, on electric-vehicle inputs that differ only in
\* region, c in CN and d in CA
CNandCA(c, d) ==
    /\ Done(c) /\ Done(d)
    /\ input[c].vehicle_fuel_type = "electric"
    /\ input[c].vehicle_type \in {"car", "suv", "motorcycle"}
    /\ input[c].location = "CN"
    /\ input[d] = InCA(input[c])

\* C5 as stated: the CN transport subtotal is strictly higher than the CA
\* one for every value of weekly miles, transit hours and flight counts.
CNStrictlyHigher ==
    \A c, d \in Calls :
        CNandCA(c, d) => result[c].transport_emissions > result[d].transport_emissions

\* C5 amended: the CN transport subtotal is never lower than the CA one, and
\* strictly higher from 4 weekly miles on.
CNNeverLower ==
    \A c, d \in Calls :
        CNandCA(c, d) =>
            /\ result[c].transport_emissions >= result[d].transport_emissions
            /\ input[c].miles_driven_weekly >= 4 =>
                  result[c].transport_emissions > result[d].transport_emissions

WitnessCNHigher ==
    \E c, d \in Calls :
        /\ CNandCA(c, d)
        /\ input[c].miles_driven_weekly = 4
        /\ input[c].vehicle_type = "motorcycle"
        /\ result[c].transport_emissions = result[d].transport_emissions + 1

\* ------------------------------------------------------------------------
\* The total and the four subtotals (C1)
\* ------------------------------------------------------------------------
TotalInputs ==
    {[BaseInput EXCEPT !.public_transit_hours_weekly = h,
                       !.natural_gas_therms_monthly = g,
                       !.meals_eaten_out_weekly = m,
                       !.new_clothes_items_yearly = n,
                       !.recycling_rate = r] :
        h \in 0..MaxHours, g \in 0..MaxTherms, m \in 0..MaxMeals, n \in 0..MaxItems,
        r \in {50, 100}}

InitTotal == InitFrom(Single(TotalInputs))

SpecTotal == InitTotal /\ [][Next]_vars

\* returned total minus the sum of the four returned subtotals, in hundredths
Discrepancy(r) ==
    r.total_carbon_footprint
        - (r.transport_emissions + r.home_emissions + r.food_emissions
           + r.consumer_emissions)

\* C1 as stated: the returned total is within 0.01 of the sum of the four
\* returned subtotals.
TotalWithinOneHundredth ==
    \A c \in Calls : result[c].kind = "result" => Abs(Discrepancy(result[c])) <= 1

\* C1 amended: the returned total is within 0.02 of the sum of the four
\* returned subtotals.
TotalWithinTwoHundredths ==
    \A c \in Calls : result[c].kind = "result" => Abs(Discrepancy(result[c])) <= 2

WitnessTotal ==
    \E c \in Calls : result[c].kind = "result" /\ Discrepancy(result[c]) = 2

\* ------------------------------------------------------------------------
\* Recycling (C6)
\* ------------------------------------------------------------------------
FullRecycling(x) == [x EXCEPT !.recycling_rate = 100]

ConsumerInputs ==
    {[BaseInput EXCEPT !.new_clothes_items_yearly = n,
                       !.new_electronics_items_yearly = e,
                       !.single_use_plastic_level = p,
                       !.water_consumption_level = w,
                       !.income_level = i,
                       !.recycling_rate = 0] :
        n \in 0..MaxItems, e \in 0..MaxItems, p \in UsageLevel, w \in WaterUsageLevel,
        i \in IncomeLevel}

InitConsumer == 
    InitFrom({[c \in Calls |-> IF c = 1 THEN x ELSE FullRecycling(x)] : x \in ConsumerInputs})

SpecConsumer == InitConsumer /\ [][Next]_vars

\* calls c and d returned, on inputs that differ only in recycling_rate, 0
\* for c and 100 for d
RecyclingPair(c, d) ==
    /\ Done(c) /\ Done(d)
    /\ input[c].recycling_rate = 0
    /\ input[d] = FullRecycling(input[c])

\* C6 as stated: the returned consumer subtotal at recycling_rate 100 is
\* exactly 85% of the one returned at recycling_rate 0.
RecyclingExactly85 ==
    \A c, d \in Calls :
        RecyclingPair(c, d) =>
            100 * result[d].consumer_emissions = 85 * result[c].consumer_emissions

\* C6 amended: the unrounded consumer subtotal at recycling_rate 100 is
\* exactly 85% of the unrounded one at 0, and the returned (rounded) one is
\* less than 0.01 away from 85% of the one returned at 0.
RecyclingAbout85 ==
    \A c, d \in Calls :
        RecyclingPair(c, d) =>
            /\ consumer_emissions(input[d])
                  = QMul(Q(85, 100), consumer_emissions(input[c]))
            /\ Abs(100 * result[d].consumer_emissions
                     - 85 * result[c].consumer_emissions) < 100

WitnessRecycling ==
    \E c, d \in Calls :
        /\ RecyclingPair(c, d)
        /\ result[c].consumer_emissions = 14
        /\ result[d].consumer_emissions = 12

\* ------------------------------------------------------------------------
\* Fully renewable electricity (C7)
\* ------------------------------------------------------------------------
HomeInputs ==
    {[BaseInput EXCEPT !.location = l, !.electricity_kwh_monthly = k,
                       !.natural_gas_therms_monthly = gf[1],
                       !.fuel_oil_gallons_monthly = gf[2],
                       !.num_residents = n, !.home_size_sqft = z,
                       !.dwelling_type = d, !.renewable_energy_percentage = p] :
        l \in Location, k \in {0, 900}, gf \in {<<0, 0>>, <<40, 0>>, <<0, 30>>},
        n \in 1..MaxResidents, z \in {900, 4000}, d \in {"apartment", "house"},
        p \in {0, 100}}

InitHome == InitFrom(Single(HomeInputs))

SpecHome == InitHome /\ [][Next]_vars

\* (therms*12*0.0053 + gallons*12*0.01) * (1/residents) * min(sqft/1500, 2)
\* * dwelling factor, as the claim states it
ClaimedHome(in) ==
    LET sqft == IF in.home_size_sqft < 3000 THEN in.home_size_sqft ELSE 3000
        dwelling == CASE in.dwelling_type = "apartment" -> 8
                      [] in.dwelling_type = "townhouse" -> 10
                      [] in.dwelling_type = "house" -> 12
    IN  QMul(QMul(Q(in.natural_gas_therms_monthly * 636
                      + in.fuel_oil_gallons_monthly * 1200, 10000),
                  Q(sqft, 1500)),
             Q(dwelling, 10 * in.num_residents))

\* C7: with renewable_energy_percentage = 100 the electricity term is
\* exactly 0 and the returned home subtotal is the gas and oil terms scaled
\* by residents, size and dwelling, whatever the region and the monthly kWh.
RenewableZeroesElectricity ==
    \A c \in Calls :
        (Done(c) /\ input[c].renewable_energy_percentage = 100) =>
            /\ electricity_emissions(input[c]) = QInt(0)
            /\ result[c].home_emissions
                  = Round2(ClaimedHome(input[c]), "home" \in half_up[c])

WitnessRenewable ==
    \E c \in Calls :
        /\ Done(c)
        /\ input[c].renewable_energy_percentage = 100
        /\ input[c].electricity_kwh_monthly = 900
        /\ input[c].location = "IN"
        /\ input[c].fuel_oil_gallons_monthly = 30
        /\ result[c].home_emissions > 0

\* ------------------------------------------------------------------------
\* The zero-usage input (C8)
\* ------------------------------------------------------------------------
ZeroUsage(x) ==
    [x EXCEPT !.vehicle_type = "none", !.vehicle_fuel_type = "none",
              !.miles_driven_weekly = 0, !.public_transit_hours_weekly = 0,
              !.flights_short_haul = 0, !.flights_medium_haul = 0,
              !.flights_long_haul = 0, !.electricity_kwh_monthly = 0,
              !.natural_gas_therms_monthly = 0, !.fuel_oil_gallons_monthly = 0,
              !.diet_type = "vegan", !.local_food_percentage = 100,
              !.food_waste_percentage = 0, !.meals_eaten_out_weekly = 0,
              !.new_clothes_items_yearly = 0, !.new_electronics_items_yearly = 0,
              !.single_use_plastic_level = "none", !.water_consumption_level = "low"]

\* a few ways of using more than nothing, per category
TransportUses ==
    {[v |-> "none", f |-> "none", m |-> 0, h |-> 0, fl |-> 0],
     [v |-> "car", f |-> "gasoline", m |-> 0, h |-> 0, fl |-> 0],
     [v |-> "car", f |-> "electric", m |-> 100, h |-> 0, fl |-> 0],
     [v |-> "none", f |-> "gasoline", m |-> 100, h |-> 2, fl |-> 1]}

HomeUses ==
    {[k |-> 0, g |-> 0, o |-> 0], [k |-> 500, g |-> 0, o |-> 0],
     [k |-> 0, g |-> 10, o |-> 5]}

FoodUses ==
    {[d |-> "vegan", l |-> 100, w |-> 0, m |-> 0],
     [d |-> "vegan", l |-> 50, w |-> 0, m |-> 0],
     [d |-> "vegetarian", l |-> 100, w |-> 0, m |-> 0],
     [d |-> "vegan", l |-> 100, w |-> 10, m |-> 1]}

ConsumerUses ==
    {[n |-> 0, e |-> 0, p |-> "none", w |-> "low"],
     [n |-> 1, e |-> 1, p |-> "none", w |-> "low"],
     [n |-> 0, e |-> 0, p |-> "low", w |-> "medium"]}

MinimumInputs ==
    {[BaseInput EXCEPT !.vehicle_type = t.v, !.vehicle_fuel_type = t.f,
                       !.miles_driven_weekly = t.m,
                       !.public_transit_hours_weekly = t.h,
                       !.flights_medium_haul = t.fl,
                       !.electricity_kwh_monthly = h.k,
                       !.natural_gas_therms_monthly = h.g,
                       !.fuel_oil_gallons_monthly = h.o,
                       !.diet_type = f.d, !.local_food_percentage = f.l,
                       !.food_waste_percentage = f.w, !.meals_eaten_out_weekly = f.m,
                       !.new_clothes_items_yearly = c.n,
                       !.new_electronics_items_yearly = c.e,
                       !.single_use_plastic_level = c.p,
                       !.water_consumption_level = c.w,
                       !.recycling_rate = r, !.income_level = i] :
        t \in TransportUses, h \in HomeUses, f \in FoodUses, c \in ConsumerUses,
        r \in {0, 100}, i \in {"low", "high"}}

InitMinimum == 
    InitFrom({[c \in Calls |-> IF c = 1 THEN x ELSE ZeroUsage(x)] : x \in MinimumInputs})

SpecMinimum == InitMinimum /\ [][Next]_vars

\* C8: each subtotal and the total of a call are at least those of the call
\* on the zero-usage input with the same recycling rate and income level,
\* whose transport and home are 0 and whose food, consumer and total are
\* positive.
ZeroUsageIsMinimum ==
    \A c, d \in Calls :
        (Done(c) /\ Done(d) /\ input[d] = ZeroUsage(input[c])) =>
            /\ result[c].transport_emissions >= result[d].transport_emissions
            /\ result[c].home_emissions >= result[d].home_emissions
            /\ result[c].food_emissions >= result[d].food_emissions
            /\ result[c].consumer_emissions >= result[d].consumer_emissions
            /\ result[c].total_carbon_footprint >= result[d].total_carbon_footprint
            /\ result[d].transport_emissions = 0
            /\ result[d].home_emissions = 0
            /\ result[d].food_emissions > 0
            /\ result[d].consumer_emissions > 0
            /\ result[d].total_carbon_footprint > 0

WitnessMinimum ==
    \E c, d \in Calls :
        /\ Done(c) /\ Done(d)
        /\ input[d] = ZeroUsage(input[c])
        /\ input[c] # input[d]
        /\ result[d].food_emissions = 88
        /\ result[c].food_emissions > 88
        /\ result[c].total_carbon_footprint > result[d].total_carbon_footprint

\* ------------------------------------------------------------------------
\* The inert fields (C10)
\* ------------------------------------------------------------------------
InertInputs ==
    {[Calls -> {[x EXCEPT !.fuel_efficiency_mpg = m, !.heating_source = h] :
                    m \in {15, 30}, h \in {"natural_gas", "oil"}}] :
        x \in {[BaseInput EXCEPT !.vehicle_type = v, !.vehicle_fuel_type = f,
                                 !.electricity_kwh_monthly = k] :
                  v \in {"car", "none"}, f \in {"gasoline", "electric"},
                  k \in {0, 900}}}

InitInert == InitFrom(UNION InertInputs)

SpecInert == InitInert /\ [][Next]_vars

SameButInert(a, b) ==
    a = [b EXCEPT !.fuel_efficiency_mpg = a.fuel_efficiency_mpg,
                  !.heating_source = a.heating_source]

\* C10: two calls whose inputs differ only in fuel_efficiency_mpg and
\* heating_source return identical result records.
InertFields ==
    \A c, d \in Calls :
        (Done(c) /\ Done(d) /\ SameButInert(input[c], input[d])) =>
            result[c] = result[d]

WitnessInert ==
    \E c, d \in Calls :
        /\ Done(c) /\ Done(d)
        /\ SameButInert(input[c], input[d])
        /\ input[c].fuel_efficiency_mpg # input[d].fuel_efficiency_mpg
        /\ input[c].heating_source # input[d].heating_source
        /\ input[c].vehicle_type = "car"
        /\ result[c].kind = "result"
        /\ result[c] = result[d]

\* ------------------------------------------------------------------------
\* Zero residents (C3)
\* ------------------------------------------------------------------------
ResidentsInputs ==
    {[BaseInput EXCEPT !.num_residents = n, !.electricity_kwh_monthly = k,
                       !.natural_gas_therms_monthly = g, !.dwelling_type = d,
                       !.vehicle_type = v] :
        n \in 0..MaxResidents, k \in {0, 900}, g \in {0, 40}, d \in DwellingType,
        v \in {"car", "none"}}

InitResidents == InitFrom(Single(ResidentsInputs))

SpecResidents == InitResidents /\ [][Next]_vars

\* C3: a call with num_residents = 0 ends in an error of the "invalid input"
\* kind and returns no result record.
ZeroResidentsRejected ==
    \A c \in Calls :
        (Done(c) /\ input[c].num_residents = 0) => result[c].kind = "invalid input"

\* ------------------------------------------------------------------------
\* Values outside the enumerations (C4)
\* ------------------------------------------------------------------------
EnumInputs ==
    {[BaseInput EXCEPT !.vehicle_type = e[1], !.vehicle_fuel_type = e[2],
                       !.location = e[3], !.dwelling_type = e[4],
                       !.diet_type = e[5], !.single_use_plastic_level = e[6],
                       !.water_consumption_level = e[7], !.income_level = e[8],
                       !.electricity_kwh_monthly = 500] :
        e \in {"suv", "unlisted"} \X {"diesel", "electric", "unlisted"}
                \X {"CN", "unlisted"} \X {"house", "unlisted"}
                \X {"vegan", "unlisted"} \X {"high", "unlisted"}
                \X {"low", "unlisted"} \X {"high", "unlisted"}}

InitEnums == InitFrom(Single(EnumInputs))

SpecEnums == InitEnums /\ [][Next]_vars

\* the input with every value outside its enumeration replaced by the member
\* whose table entry is the documented default: factor 0.33 (car, gasoline),
\* grid multiplier 1.0 and region factor 0.0004 (US), dwelling 1.0
\* (townhouse), diet 1.9 (average), plastic 0.15 (medium), water 0.2
\* (medium), income 1.0 (medium)
Defaulted(x) ==
    LET keep == x.vehicle_type \in VehicleType /\ x.vehicle_fuel_type \in FuelType
    IN  [x EXCEPT !.vehicle_type = IF keep THEN @ ELSE "car",
                  !.vehicle_fuel_type = IF keep THEN @ ELSE "gasoline",
                  !.location = IF @ \in Location THEN @ ELSE "US",
                  !.dwelling_type = IF @ \in DwellingType THEN @ ELSE "townhouse",
                  !.diet_type = IF @ \in DietType THEN @ ELSE "average",
                  !.single_use_plastic_level = IF @ \in UsageLevel THEN @ ELSE "medium",
                  !.water_consumption_level =
                      IF @ \in WaterUsageLevel THEN @ ELSE "medium",
                  !.income_level = IF @ \in IncomeLevel THEN @ ELSE "medium"]

\* C4: a value outside an enumeration never makes the call fail; the call
\* returns the result computed with the documented defaults.
EnumDefaults ==
    \A c \in Calls :
        Done(c) =>
            /\ result[c].kind = "result"
            /\ result[c] = calculate_carbon_footprint(Defaulted(input[c]), half_up[c])

=============================================================================
